---- MODULE Spec2Model ----
(***************************************************************************)
(* A model of package breaker (sj902/go-circuit-breaker): the Counts       *)
(* tally, the CircuitBreaker state machine with its generation counter and *)
(* expiry, and Execute run by several goroutines.                          *)
(*                                                                         *)
(* Time is a natural number of ticks.  time.Time{} (the zero time, year 1) *)
(* is ZeroTime; time.Now() is always later than the zero time, so the      *)
(* clock starts at StartTime >= 1.  expiry.Before(t) is expiry < t.        *)
(***************************************************************************)
EXTENDS Integers, FiniteSets, Sequences, TLC

\* ------------------------------------------------------------------ bounds
NumCallers == 2         \* goroutines that call Execute
MaxClock == 3           \* the clock stops advancing here
MaxGen == 4             \* no new Execute starts at or beyond this generation
MaxReq == 6             \* no new Execute starts once counts.Requests reached it
MaxSeqFails == 5        \* cap of the observer seqFails
MaxUnit == 2            \* cap of each counter when Counts is driven on its own
StartTime == 1          \* time.Now() at construction

Callers == 1..NumCallers
Nil == "nil"
ZeroTime == 0

\* ------------------------------------------------------- program constants
StateHalfOpen == 0
StateOpen == 1
StateClosed == 2
States == {StateHalfOpen, StateOpen, StateClosed}

ErrTooManyRequests == "too many requests"
ErrOpenState == "circuit breaker is open"

defaultTimeOut == 60
defaultMaxRequests == 5

\* --------------------------------------------------------------- Counts
ZeroCounts ==
    [Requests |-> 0, TotalSuccess |-> 0, TotalFail |-> 0,
     ConsecutiveSuccess |-> 0, ConsecutiveFail |-> 0]

Counts_onRequest(c) == [c EXCEPT !.Requests = @ + 1]

\* onSuccess that forgets to end the failure streak
Counts_onSuccess_KeepStreak(c) ==
    [c EXCEPT !.ConsecutiveSuccess = @ + 1, !.TotalSuccess = @ + 1]

Counts_onSuccess(c) ==
    [c EXCEPT !.ConsecutiveSuccess = @ + 1,
              !.TotalSuccess = @ + 1,
              !.ConsecutiveFail = 0]

Counts_onFail(c) ==
    [c EXCEPT !.ConsecutiveFail = @ + 1,
              !.TotalFail = @ + 1,
              !.ConsecutiveSuccess = 0]

Counts_clear(c) ==
    [c EXCEPT !.Requests = 0, !.TotalSuccess = 0, !.TotalFail = 0,
              !.ConsecutiveSuccess = 0, !.ConsecutiveFail = 0]

\* ------------------------------------------------------- trip predicates
\* A predicate is named: "default" is defaultReadyToTrip, "ratio" is the
\* predicate of example.go.
defaultReadyToTrip(c) == c.ConsecutiveFail >= 5

\* float64(TotalFail)/float64(Requests) >= 0.5 && Requests >= 3; with
\* Requests = 0 the quotient is NaN or +Inf and Requests >= 3 is false.
exampleReadyToTrip(c) == c.Requests >= 3 /\ 2 * c.TotalFail >= c.Requests

readyToTrip(p, c) ==
    IF p = "default" THEN defaultReadyToTrip(c) ELSE exampleReadyToTrip(c)

\* ------------------------------------------------------- CircuitBreaker
\* newGeneration that keeps the counts of the old generation
newGeneration_KeepCounts(b, t) ==
    [b EXCEPT !.generation = @ + 1,
              !.expiry = IF b.state = StateOpen THEN t + b.timeout ELSE ZeroTime]

\* newGeneration: clear the counts, bump the generation, recompute expiry.
newGeneration(b, t) ==
    [b EXCEPT !.counts = Counts_clear(@),
              !.generation = @ + 1,
              !.expiry = IF b.state = StateOpen THEN t + b.timeout ELSE ZeroTime]

\* setState without the early return
setState_Always(b, s, t) == newGeneration([b EXCEPT !.state = s], t)

setState(b, s, t) ==
    IF s = b.state THEN b
    ELSE newGeneration([b EXCEPT !.state = s], t)

\* currentState(t): t2 is the time.Now() read inside it.  The result is the
\* breaker after the call with the returned state and generation.
currentState(b, t, t2) ==
    LET b1 == IF b.state = StateClosed /\ b.expiry < t
              THEN setState(b, StateHalfOpen, t2)
              ELSE b
    IN  [cb |-> b1, state |-> b1.state, generation |-> b1.generation]

\* onSuccess closing the breaker one success late (> for >=)
onSuccess_Late(b, currState, t) ==
    LET b1 == [b EXCEPT !.counts = Counts_onSuccess(@)]
    IN  IF currState = StateHalfOpen /\ b1.counts.ConsecutiveSuccess > b1.maxRequests
        THEN setState(b1, StateClosed, t)
        ELSE IF currState \in {StateHalfOpen, StateClosed} THEN b1 ELSE b

onSuccess(b, currState, t) ==
    IF currState = StateClosed THEN
        LET b1 == [b EXCEPT !.counts = Counts_onSuccess(@)]
        IN  IF readyToTrip(b1.readyToTrip, b1.counts)
            THEN setState(b1, StateOpen, t) ELSE b1
    ELSE IF currState = StateHalfOpen THEN
        LET b1 == [b EXCEPT !.counts = Counts_onSuccess(@)]
        IN  IF b1.counts.ConsecutiveSuccess >= b1.maxRequests
            THEN setState(b1, StateClosed, t) ELSE b1
    ELSE b

\* onFail that only counts the failure while HalfOpen
onFail_NoTrip(b, currState, t) ==
    IF currState \in {StateClosed, StateHalfOpen}
    THEN [b EXCEPT !.counts = Counts_onFail(@)] ELSE b

onFail(b, currState, t) ==
    IF currState = StateClosed THEN
        [b EXCEPT !.counts = Counts_onFail(@)]
    ELSE IF currState = StateHalfOpen THEN
        setState([b EXCEPT !.counts = Counts_onFail(@)], StateOpen, t)
    ELSE b

\* beforeRequest (the body under the mutex): t and t2 are its clock reads.
beforeRequest(b, t, t2) ==
    LET b1 == [b EXCEPT !.counts = Counts_onRequest(@)]
        cs == currentState(b1, t, t2)
        err == IF cs.state = StateOpen THEN ErrOpenState
               ELSE IF cs.state = StateHalfOpen
                       /\ cs.cb.counts.Requests > cs.cb.maxRequests
                    THEN ErrTooManyRequests
               ELSE Nil
    IN  [cb |-> cs.cb, generation |-> cs.generation, err |-> err]

\* afterRequest without the generation check
afterRequest_NoTagCheck(b, before, isSuccess, now, t, t2) ==
    LET cs == currentState(b, t, t2)
    IN  IF isSuccess THEN onSuccess(cs.cb, cs.state, now)
        ELSE onFail(cs.cb, cs.state, now)

\* afterRequest (the body under the mutex): now, t and t2 are its clock reads.
afterRequest(b, before, isSuccess, now, t, t2) ==
    LET cs == currentState(b, t, t2)
    IN  IF cs.generation # before THEN cs.cb
        ELSE IF isSuccess THEN onSuccess(cs.cb, cs.state, now)
        ELSE onFail(cs.cb, cs.state, now)

refresh(b, t) ==
    [b EXCEPT !.generation = @ + 1,
              !.counts = Counts_clear(@),
              !.expiry = IF b.state = StateClosed THEN t + b.timeout ELSE ZeroTime]

\* new(CircuitBreaker): every field has its zero value; State's zero value is
\* StateHalfOpen.
ZeroBreaker ==
    [timeout |-> 0, maxRequests |-> 0, readyToTrip |-> Nil,
     state |-> StateHalfOpen, generation |-> 0, counts |-> ZeroCounts,
     expiry |-> ZeroTime]

NewCircuitBreaker(s, t) ==
    LET b1 == [ZeroBreaker EXCEPT
                 !.timeout = IF s.Timeout <= 0 THEN defaultTimeOut ELSE s.Timeout,
                 !.maxRequests = IF s.Timeout <= 0 THEN defaultMaxRequests
                                 ELSE s.MaxRequests,
                 !.readyToTrip = IF s.ReadyToTrip = Nil THEN "default"
                                 ELSE s.ReadyToTrip]
        b2 == refresh(b1, t)
    IN  [b2 EXCEPT !.state = StateClosed, !.generation = 0]

\* ------------------------------------------------------------- Execute
\* What the wrapped operation req() does: it returns (res, err) or panics
\* with a value.  recover() returns a non-nil value for every panic.
OpReturns ==
    { [kind |-> "return", res |-> "body", err |-> Nil, val |-> Nil],
      [kind |-> "return", res |-> Nil, err |-> "opErr", val |-> Nil] }
OpPanics == { [kind |-> "panic", res |-> Nil, err |-> Nil, val |-> "boom"] }
OpOutcomes == OpReturns \cup OpPanics
NoOutcome == [kind |-> "none", res |-> Nil, err |-> Nil, val |-> Nil]

\* e := recover() in Execute's deferred function.
Recover(o) == IF o.kind = "panic" THEN o.val ELSE Nil

\* the deferred function recording the panic as a success
IsSuccessArg_PanicOk(o) == IF o.kind = "return" THEN o.err # Nil ELSE TRUE

\* The isSuccess argument Execute passes to afterRequest: err != nil on the
\* normal path (line 154), false in the deferred function (line 148).
IsSuccessArg(o) == IF o.kind = "return" THEN o.err # Nil ELSE FALSE

\* Execute without the deferred afterRequest
Records_ReturnOnly(o) == o.kind = "return"

\* Whether Execute calls afterRequest for this outcome of req().
Records(o) == o.kind = "return" \/ Recover(o) # Nil

\* How control leaves Execute once req() has ended with outcome o.
ExitOf(o) ==
    IF o.kind = "return" THEN [kind |-> "return", res |-> o.res, err |-> o.err, val |-> Nil]
    ELSE IF Recover(o) # Nil THEN [kind |-> "panic", res |-> Nil, err |-> Nil, val |-> Recover(o)]
    ELSE [kind |-> "return", res |-> Nil, err |-> Nil, val |-> Nil]

RejectExit(err) == [kind |-> "return", res |-> Nil, err |-> err, val |-> Nil]

SettingsSpace ==
    [Timeout : {0, 2}, MaxRequests : {-1, 0, 1}, ReadyToTrip : {Nil, "ratio"}]

Ticks(t) == { u \in t..(t + 1) : u <= MaxClock }

VARIABLES
    settings,   \* the Settings given to NewCircuitBreaker
    cb,         \* the CircuitBreaker's fields other than the mutex
    mutex,      \* cb.mutex: 0 when unlocked, else the caller holding it
    clock,      \* the last value time.Now() returned
    pc,         \* where each caller is in Execute
    tag,        \* Execute's local generation
    op,         \* the outcome of the caller's req()
    now,        \* afterRequest's local now
    exit,       \* how the caller's last Execute ended
    calls,      \* per caller: req() and afterRequest invocations of its Execute
    admitted,   \* calls beforeRequest admitted with the current generation
    seqFails,   \* k when the first k operations since construction all failed
                \* and no two calls overlapped; -1 otherwise
    last        \* the step just taken when it ran beforeRequest or afterRequest
                \* or left Execute unrecorded: who took it and what it started from

vars == <<settings, cb, mutex, clock, pc, tag, op, now, exit, calls,
          admitted, seqFails, last>>

NoStep ==
    [step |-> "none", c |-> 0, pre |-> ZeroBreaker, clk |-> 0, tag |-> 0,
     op |-> NoOutcome, now |-> 0, adm |-> 0, arg |-> -1]

\* caller c takes step s with req() outcome o
StepOf(s, c, o) ==
    [step |-> s, c |-> c, pre |-> cb, clk |-> clock, tag |-> tag[c],
     op |-> o, now |-> now[c], adm |-> admitted, arg |-> -1]

Init ==
    /\ settings \in SettingsSpace
    /\ clock = StartTime
    /\ cb = NewCircuitBreaker(settings, clock)
    /\ mutex = 0
    /\ pc = [c \in Callers |-> "idle"]
    /\ tag = [c \in Callers |-> 0]
    /\ op = [c \in Callers |-> NoOutcome]
    /\ now = [c \in Callers |-> 0]
    /\ exit = [c \in Callers |-> NoOutcome]
    /\ calls = [c \in Callers |-> [req |-> 0, rec |-> 0]]
    /\ admitted = 0
    /\ seqFails = 0
    /\ last = NoStep

\* admitted after a step that leaves the breaker as b2
AdmittedAfter(b2, isAdmitted) ==
    (IF b2.generation = cb.generation THEN admitted ELSE 0)
    + (IF isAdmitted THEN 1 ELSE 0)

\* beforeRequest entered without cb.mutex.Lock()
BeforeLock_NoLock(c) ==
    /\ pc[c] = "idle"
    /\ cb.generation < MaxGen
    /\ cb.counts.Requests < MaxReq
    /\ pc' = [pc EXCEPT ![c] = "before"]
    /\ exit' = [exit EXCEPT ![c] = NoOutcome]
    /\ calls' = [calls EXCEPT ![c] = [req |-> 0, rec |-> 0]]
    /\ seqFails' = IF \E d \in Callers \ {c} : pc[d] # "idle" THEN -1 ELSE seqFails
    /\ last' = NoStep
    /\ UNCHANGED <<settings, cb, mutex, clock, tag, op, now, admitted>>

\* Execute begins: beforeRequest takes the mutex.
BeforeLock(c) ==
    /\ pc[c] = "idle"
    /\ mutex = 0
    /\ cb.generation < MaxGen
    /\ cb.counts.Requests < MaxReq
    /\ mutex' = c
    /\ pc' = [pc EXCEPT ![c] = "before"]
    /\ exit' = [exit EXCEPT ![c] = NoOutcome]
    /\ calls' = [calls EXCEPT ![c] = [req |-> 0, rec |-> 0]]
    /\ seqFails' = IF \E d \in Callers \ {c} : pc[d] # "idle" THEN -1 ELSE seqFails
    /\ last' = NoStep
    /\ UNCHANGED <<settings, cb, clock, tag, op, now, admitted>>

\* beforeRequest's body and its deferred Unlock; Execute then returns the
\* rejection or invokes req().
BeforeRequest(c) ==
    /\ pc[c] = "before"
    /\ \E t \in Ticks(clock) : \E t2 \in Ticks(t) :
        LET r == beforeRequest(cb, t, t2) IN
        /\ cb' = r.cb
        /\ clock' = t2
        /\ mutex' = 0
        /\ admitted' = AdmittedAfter(r.cb, r.err = Nil)
        /\ IF r.err # Nil
           THEN /\ pc' = [pc EXCEPT ![c] = "idle"]
                /\ tag' = [tag EXCEPT ![c] = 0]
                /\ exit' = [exit EXCEPT ![c] = RejectExit(r.err)]
                /\ calls' = calls
           ELSE /\ pc' = [pc EXCEPT ![c] = "running"]
                /\ tag' = [tag EXCEPT ![c] = r.generation]
                /\ exit' = exit
                /\ calls' = [calls EXCEPT ![c].req = @ + 1]
    /\ last' = StepOf("before", c, NoOutcome)
    /\ UNCHANGED <<settings, op, now, seqFails>>

\* req() ends, outside the mutex.  When Execute does not record the outcome
\* it is left at once.
OpEnds(c) ==
    /\ pc[c] = "running"
    /\ \E o \in OpOutcomes :
        /\ IF Records(o)
           THEN /\ pc' = [pc EXCEPT ![c] = "ended"]
                /\ op' = [op EXCEPT ![c] = o]
                /\ tag' = tag
                /\ exit' = exit
                /\ last' = NoStep
           ELSE /\ pc' = [pc EXCEPT ![c] = "idle"]
                /\ op' = op
                /\ tag' = [tag EXCEPT ![c] = 0]
                /\ exit' = [exit EXCEPT ![c] = ExitOf(o)]
                /\ last' = StepOf("leave", c, o)
        /\ seqFails' =
             IF seqFails = -1 THEN -1
             ELSE IF o.kind = "return" /\ o.err = Nil THEN -1
             ELSE IF seqFails < MaxSeqFails THEN seqFails + 1 ELSE seqFails
    /\ UNCHANGED <<settings, cb, mutex, clock, now, calls, admitted>>

\* afterRequest takes the mutex and reads now := time.Now().
AfterLock(c) ==
    /\ pc[c] = "ended"
    /\ mutex = 0
    /\ mutex' = c
    /\ \E t \in Ticks(clock) :
        /\ clock' = t
        /\ now' = [now EXCEPT ![c] = t]
    /\ pc' = [pc EXCEPT ![c] = "after"]
    /\ last' = NoStep
    /\ UNCHANGED <<settings, cb, tag, op, exit, calls, admitted, seqFails>>

\* The rest of afterRequest and its deferred Unlock; control then leaves
\* Execute by return or by panic(e).
AfterRequest(c) ==
    /\ pc[c] = "after"
    /\ \E t \in Ticks(clock) : \E t2 \in Ticks(t) :
        LET b2 == afterRequest(cb, tag[c], IsSuccessArg(op[c]), now[c], t, t2) IN
        /\ cb' = b2
        /\ clock' = t2
        /\ admitted' = AdmittedAfter(b2, FALSE)
    /\ mutex' = 0
    /\ calls' = [calls EXCEPT ![c].rec = @ + 1]
    /\ pc' = [pc EXCEPT ![c] = "idle"]
    /\ exit' = [exit EXCEPT ![c] = ExitOf(op[c])]
    /\ tag' = [tag EXCEPT ![c] = 0]
    /\ op' = [op EXCEPT ![c] = NoOutcome]
    /\ now' = [now EXCEPT ![c] = 0]
    /\ last' = StepOf("after", c, op[c])
    /\ UNCHANGED <<settings, seqFails>>

Next ==
    \E c \in Callers :
        \/ BeforeLock(c)
        \/ BeforeRequest(c)
        \/ OpEnds(c)
        \/ AfterLock(c)
        \/ AfterRequest(c)

Spec == Init /\ [][Next]_vars

\* Callers keep calling Execute and every step of an Execute under way is
\* eventually taken.  sync.Mutex hands the lock to a goroutine that has
\* waited (starvation mode), so a caller that is repeatedly able to take the
\* mutex does take it: strong fairness for the two Lock() steps.
Fairness ==
    \A c \in Callers :
        /\ SF_vars(BeforeLock(c) \/ AfterLock(c))
        /\ WF_vars(BeforeRequest(c) \/ OpEnds(c) \/ AfterRequest(c))

FairSpec == Init /\ [][Next]_vars /\ Fairness

\* ------------------------------------------- Counts and setState alone
\* The methods of Counts and setState applied in any order to the breaker,
\* with no Execute in progress.
UnitFrame == UNCHANGED <<settings, mutex, pc, tag, op, now, exit, calls,
                         admitted, seqFails>>

UOnRequest ==
    /\ cb.counts.Requests < MaxUnit
    /\ cb' = [cb EXCEPT !.counts = Counts_onRequest(@)]
    /\ last' = NoStep
    /\ UNCHANGED clock
    /\ UnitFrame

UOnSuccess ==
    /\ cb.counts.TotalSuccess < MaxUnit
    /\ cb' = [cb EXCEPT !.counts = Counts_onSuccess(@)]
    /\ last' = NoStep
    /\ UNCHANGED clock
    /\ UnitFrame

UOnFail ==
    /\ cb.counts.TotalFail < MaxUnit
    /\ cb' = [cb EXCEPT !.counts = Counts_onFail(@)]
    /\ last' = NoStep
    /\ UNCHANGED clock
    /\ UnitFrame

UClear ==
    /\ cb' = [cb EXCEPT !.counts = Counts_clear(@)]
    /\ last' = NoStep
    /\ UNCHANGED clock
    /\ UnitFrame

USetState ==
    /\ cb.generation < MaxGen
    /\ \E s \in States : \E t \in Ticks(clock) :
        /\ cb' = setState(cb, s, t)
        /\ clock' = t
        /\ last' = [NoStep EXCEPT !.step = "setState", !.pre = cb,
                                  !.clk = t, !.arg = s]
    /\ UnitFrame

UnitNext == UOnRequest \/ UOnSuccess \/ UOnFail \/ UClear \/ USetState

UnitSpec == Init /\ [][UnitNext]_vars

\* ================================================================ claims
AllIdle == \A c \in Callers : pc[c] = "idle"
IsRejection(e) ==
    e.kind = "return" /\ e.err \in {ErrOpenState, ErrTooManyRequests}

\* the step just taken was beforeRequest / afterRequest
DidBefore == last.step = "before"
DidAfter == last.step = "after"
\* afterRequest found its tag current, with no lazy transition on the way
TagCurrent ==
    /\ last.tag = last.pre.generation
    /\ currentState(last.pre, last.clk, last.clk).generation = last.tag

\* C1: after the breaker entered Open with expiry T+D, an admission check
\* made before T+D is rejected with "circuit open", and one made at or after
\* T+D is not: the breaker has left Open and the call gets HalfOpen semantics.
C1_OpenUntilTimeout ==
    (DidBefore /\ last.pre.state = StateOpen) =>
        /\ clock < last.pre.expiry => exit[last.c].err = ErrOpenState
        /\ last.clk >= last.pre.expiry =>
              /\ exit[last.c].err # ErrOpenState
              /\ cb.state = StateHalfOpen

\* C2: within one HalfOpen generation (maxRequests >= 1) a call is admitted
\* exactly when fewer than maxRequests calls were admitted in it before.
C2_ExactlyMaxRequests ==
    (DidBefore /\ cb.state = StateHalfOpen /\ cb.maxRequests >= 1) =>
        LET admittedBefore ==
                IF cb.generation = last.pre.generation THEN last.adm ELSE 0
        IN  (pc[last.c] = "running") <=> (admittedBefore < cb.maxRequests)

\* C3: an operation that returned, recorded under a current tag, counts as
\* a failure when its error is non-nil and as a success when it is nil, and
\* Execute returns the operation's result and error.
C3_OutcomeClassified ==
    (DidAfter /\ last.op.kind = "return" /\ TagCurrent) =>
        /\ cb = IF last.op.err # Nil
                THEN onFail(last.pre, last.pre.state, last.now)
                ELSE onSuccess(last.pre, last.pre.state, last.now)
        /\ exit[last.c].kind = "return"
        /\ exit[last.c].res = last.op.res
        /\ exit[last.c].err = last.op.err

\* C4: from a fresh breaker, within the first timeout window, sequential
\* calls whose operations all fail trip the breaker as soon as the trip
\* predicate holds of them: 5 failures under the default predicate, 3 under
\* the example's (Requests >= 3 and at least half failed).
C4_TripsWhenPredicateHolds ==
    (AllIdle /\ clock < StartTime + cb.timeout /\ seqFails >= 0
       /\ readyToTrip(cb.readyToTrip,
            [Requests |-> seqFails, TotalSuccess |-> 0, TotalFail |-> seqFails,
             ConsecutiveSuccess |-> 0, ConsecutiveFail |-> seqFails]))
    => cb.state = StateOpen
\* C5: a failure recorded under a current tag while HalfOpen leaves the
\* breaker Open with expiry = recording time + timeout, the generation one
\* higher and every counter zero.
C5_FailureReopens ==
    (DidAfter /\ ~IsSuccessArg(last.op) /\ TagCurrent
       /\ last.pre.state = StateHalfOpen) =>
        /\ cb.state = StateOpen
        /\ cb.expiry = last.now + last.pre.timeout
        /\ cb.generation = last.pre.generation + 1
        /\ cb.counts = ZeroCounts

C5_Witness ==
    /\ DidAfter /\ ~IsSuccessArg(last.op) /\ TagCurrent
    /\ last.pre.state = StateHalfOpen
    /\ last.pre.counts.TotalSuccess >= 1
    /\ cb.state = StateOpen

\* C6: a success recorded under a current tag while HalfOpen (maxRequests
\* >= 1) keeps the breaker HalfOpen while ConsecutiveSuccess stays below
\* maxRequests; the one that reaches maxRequests closes it, with every
\* counter zero and the generation one higher.
C6_SuccessesClose ==
    (DidAfter /\ IsSuccessArg(last.op) /\ TagCurrent
       /\ last.pre.state = StateHalfOpen /\ last.pre.maxRequests >= 1) =>
        IF last.pre.counts.ConsecutiveSuccess + 1 < last.pre.maxRequests
        THEN /\ cb.state = StateHalfOpen
             /\ cb.generation = last.pre.generation
             /\ cb.counts = Counts_onSuccess(last.pre.counts)
        ELSE /\ last.pre.counts.ConsecutiveSuccess + 1 = last.pre.maxRequests
             /\ cb.state = StateClosed
             /\ cb.generation = last.pre.generation + 1
             /\ cb.counts = ZeroCounts

C6_Witness ==
    /\ DidAfter /\ IsSuccessArg(last.op) /\ TagCurrent
    /\ last.pre.state = StateHalfOpen
    /\ last.pre.maxRequests >= 2
    /\ last.pre.counts.ConsecutiveSuccess >= 1
    /\ cb.state = StateClosed

\* C7: an outcome recorded with a tag older than the breaker's generation
\* leaves every counter as it was.
C7_StaleLeavesCounts ==
    (DidAfter /\ last.tag < last.pre.generation) => cb.counts = last.pre.counts

C7_Witness ==
    /\ DidAfter /\ last.tag < last.pre.generation
    /\ last.pre.counts.Requests >= 1
    /\ last.pre.state = StateHalfOpen

\* C8: beforeRequest rejects with "circuit open" exactly when the effective
\* state is Open and with "too many requests" exactly when it is HalfOpen
\* with Requests > maxRequests, and admits otherwise; a rejected call runs
\* neither req() nor afterRequest and leaves state, generation, expiry and
\* the success and failure counters as they were.
C8_AdmissionDecision ==
    DidBefore =>
        LET c == last.c
            open == cb.state = StateOpen
            many == cb.state = StateHalfOpen /\ cb.counts.Requests > cb.maxRequests
            rejected == pc[c] = "idle" /\ IsRejection(exit[c])
        IN  /\ open <=> (rejected /\ exit[c].err = ErrOpenState)
            /\ many <=> (rejected /\ exit[c].err = ErrTooManyRequests)
            /\ ~(open \/ many) <=> pc[c] = "running"
            /\ rejected =>
                /\ calls[c] = [req |-> 0, rec |-> 0]
                /\ cb.state = last.pre.state
                /\ cb.generation = last.pre.generation
                /\ cb.expiry = last.pre.expiry
                /\ cb.counts.TotalSuccess = last.pre.counts.TotalSuccess
                /\ cb.counts.TotalFail = last.pre.counts.TotalFail
                /\ cb.counts.ConsecutiveSuccess = last.pre.counts.ConsecutiveSuccess
                /\ cb.counts.ConsecutiveFail = last.pre.counts.ConsecutiveFail

\* C9: when req() panics the outcome is recorded as a failure before control
\* leaves Execute, and Execute is left by a panic with the same value, never
\* by a return.
C9_PanicIsFailure ==
    (last.step \in {"after", "leave"} /\ last.op.kind = "panic") =>
        /\ last.step = "after"
        /\ calls[last.c].rec = 1
        /\ pc[last.c] = "idle"
        /\ exit[last.c].kind = "panic"
        /\ exit[last.c].val = last.op.val
        /\ (TagCurrent /\ last.pre.state = StateHalfOpen) =>
              /\ cb.state = StateOpen
              /\ cb.expiry = last.now + last.pre.timeout
              /\ cb.generation = last.pre.generation + 1
              /\ cb.counts = ZeroCounts
        /\ (TagCurrent /\ last.pre.state = StateClosed) =>
              /\ cb.state = StateClosed
              /\ cb.counts = Counts_onFail(last.pre.counts)
        /\ last.tag # last.pre.generation => cb.counts = last.pre.counts

C9_Witness ==
    /\ DidAfter /\ last.op.kind = "panic" /\ TagCurrent
    /\ exit[last.c].kind = "panic"
    /\ cb.state = StateOpen

\* C10: an admitted Execute invokes req() once and afterRequest once on
\* every way out (return, error, panic), never recording before req() ended;
\* one recording raises TotalSuccess + TotalFail of a generation by at most 1.
C10_RecordedOnce ==
    /\ \A c \in Callers :
        /\ (pc[c] = "idle" /\ exit[c].kind # "none" /\ ~IsRejection(exit[c]))
              => calls[c] = [req |-> 1, rec |-> 1]
        /\ pc[c] \in {"running", "ended", "after"}
              => calls[c] = [req |-> 1, rec |-> 0]
    /\ (DidAfter /\ cb.generation = last.pre.generation) =>
          cb.counts.TotalSuccess + cb.counts.TotalFail
             <= last.pre.counts.TotalSuccess + last.pre.counts.TotalFail + 1

C10_Witness ==
    \E c \in Callers :
        /\ pc[c] = "idle"
        /\ exit[c].kind = "panic"
        /\ calls[c] = [req |-> 1, rec |-> 1]
        /\ \E d \in Callers \ {c} : exit[d].kind = "return" /\ exit[d].err = "opErr"
\* C11: NewCircuitBreaker defaults each setting on its own: timeout is 60
\* when Settings.Timeout <= 0, maxRequests is 5 when Settings.MaxRequests
\* <= 0, readyToTrip is the default predicate when Settings.ReadyToTrip is
\* nil; a setting that is given is kept.
C11_IndependentDefaults ==
    /\ cb.timeout = IF settings.Timeout <= 0 THEN defaultTimeOut
                    ELSE settings.Timeout
    /\ cb.maxRequests = IF settings.MaxRequests <= 0 THEN defaultMaxRequests
                        ELSE settings.MaxRequests
    /\ cb.readyToTrip = IF settings.ReadyToTrip = Nil THEN "default"
                        ELSE settings.ReadyToTrip
\* C12: a caller holds the mutex exactly while it is inside beforeRequest or
\* afterRequest, never while its req() runs or after either has returned,
\* and the breaker's fields change only in a step of the caller that holds
\* the mutex.
MutexHeldInside ==
    \A c \in Callers : (mutex = c) <=> (pc[c] \in {"before", "after"})

C12_MutexDiscipline ==
    /\ []MutexHeldInside
    /\ [][cb' # cb =>
            /\ mutex \in Callers
            /\ pc[mutex] \in {"before", "after"}
            /\ pc'[mutex] \notin {"before", "after"}
            /\ mutex' = 0]_vars

\* two callers inside req() at once, nobody holding the mutex
C12_Witness ==
    /\ mutex = 0
    /\ \A c \in Callers : pc[c] = "running"
    /\ cb.counts.Requests >= 1
\* C13: a Closed breaker (fresh or re-closed) carries expiry = the time it
\* became Closed + timeout, not the zero time; an Execute whose admission
\* check comes before that expiry is admitted with the breaker still Closed,
\* the generation unchanged and the request counted.
C13_ClosedWindow ==
    /\ cb.state = StateClosed => cb.expiry >= StartTime + cb.timeout
    /\ (DidBefore /\ last.pre.state = StateClosed
          /\ clock < StartTime + last.pre.timeout) =>
            /\ pc[last.c] = "running"
            /\ cb.state = StateClosed
            /\ cb.generation = last.pre.generation
            /\ cb.counts.Requests = last.pre.counts.Requests + 1
\* C14: in every step the generation does not decrease; a step that changes
\* the state raises the generation by exactly 1 and leaves all five counters
\* zero; the generation changes only in a step that changes the state.
C14_GenerationPerTransition ==
    [][/\ cb'.generation >= cb.generation
       /\ cb'.state # cb.state =>
            /\ cb'.generation = cb.generation + 1
            /\ cb'.counts = ZeroCounts
       /\ cb'.generation # cb.generation => cb'.state # cb.state]_vars

\* a transition taken after requests and successes were counted
C14_Witness ==
    /\ DidAfter
    /\ cb.state # last.pre.state
    /\ cb.generation = last.pre.generation + 1
    /\ last.pre.counts.Requests >= 1
    /\ last.pre.counts.TotalSuccess >= 1
    /\ cb.counts = ZeroCounts
\* C15: beforeRequest counts the request in the generation whose tag it
\* returns: right after it the tag of an admitted call is the current
\* generation and Requests is one more than that generation had before the
\* call (so at least 1), also when the call started the generation.
C15_RequestCounted ==
    DidBefore =>
        /\ pc[last.c] = "running" => tag[last.c] = cb.generation
        /\ cb.counts.Requests >= 1
        /\ cb.counts.Requests =
              (IF cb.generation = last.pre.generation
               THEN last.pre.counts.Requests ELSE 0) + 1
\* C16: after any sequence of onRequest, onSuccess, onFail and clear at most
\* one of ConsecutiveSuccess and ConsecutiveFail is non-zero, and each is at
\* most its total.
C16_StreaksExclusive ==
    /\ cb.counts.ConsecutiveSuccess = 0 \/ cb.counts.ConsecutiveFail = 0
    /\ cb.counts.ConsecutiveSuccess <= cb.counts.TotalSuccess
    /\ cb.counts.ConsecutiveFail <= cb.counts.TotalFail

\* a failure streak that followed successes
C16_Witness ==
    /\ cb.counts.ConsecutiveFail >= 2
    /\ cb.counts.TotalSuccess >= 1
    /\ cb.counts.ConsecutiveSuccess = 0
    /\ cb.counts.Requests >= 1

\* C17: setState with the state the breaker is already in changes nothing:
\* state, generation, counts and expiry are as before.
C17_SetStateSameIsNoOp ==
    (last.step = "setState" /\ last.arg = last.pre.state) => cb = last.pre

\* an Open breaker with counts, set to Open again at a time that would give
\* another expiry
C17_Witness ==
    /\ last.step = "setState"
    /\ last.arg = StateOpen
    /\ last.pre.state = StateOpen
    /\ last.pre.counts.Requests >= 1
    /\ last.clk + last.pre.timeout # last.pre.expiry
    /\ cb = last.pre
\* C18: the outcomes recorded in the current generation never outnumber the
\* requests counted in it: TotalSuccess + TotalFail <= Requests.
C18_OutcomesWithinRequests ==
    cb.counts.TotalSuccess + cb.counts.TotalFail <= cb.counts.Requests

\* C19 as claimed: an afterRequest whose tag is stale changes nothing at
\* all: state, generation, counts and expiry are as before.
C19_StaleChangesNothing ==
    (DidAfter /\ last.tag # last.pre.generation) => cb = last.pre

\* C19 as amended: an afterRequest whose tag is stale records no outcome.
\* Unless the breaker is Closed with its expiry passed, state, generation,
\* counts and expiry are as before; if it is, only currentState's lazy
\* transition happens: HalfOpen, generation + 1, counts and expiry zero.
C19_StaleRecordsNothing ==
    (DidAfter /\ last.tag # last.pre.generation) =>
        /\ (last.pre.state # StateClosed \/ last.pre.expiry >= clock)
              => cb = last.pre
        /\ (last.pre.state = StateClosed /\ last.pre.expiry < last.clk) =>
              /\ cb.state = StateHalfOpen
              /\ cb.generation = last.pre.generation + 1
              /\ cb.counts = ZeroCounts
              /\ cb.expiry = ZeroTime
        /\ cb = last.pre \/ cb = setState(last.pre, StateHalfOpen, clock)

\* a stale completion arriving at a re-closed breaker
C19_Witness ==
    /\ DidAfter
    /\ last.tag # last.pre.generation
    /\ last.pre.state = StateClosed
    /\ cb.state = StateHalfOpen
    /\ cb.generation = last.pre.generation + 1
\* a call admitted in the current generation whose outcome is not yet recorded
InFlight == \E c \in Callers : pc[c] \in {"running", "ended", "after"} /\ tag[c] = cb.generation

\* HalfOpen with every admitted call of the generation recorded still has
\* room: the next beforeRequest finds Requests <= maxRequests
NoWedge ==
    (cb.state = StateHalfOpen /\ cb.maxRequests >= 1 /\ ~InFlight)
        => cb.counts.Requests < cb.maxRequests

\* C20: for maxRequests >= 1 the breaker cannot wedge in HalfOpen: while
\* calls keep arriving and every admitted operation completes, a HalfOpen
\* breaker eventually leaves HalfOpen, and no HalfOpen state rejects every
\* future call while no admitted call of the generation is in flight.
C20_NoHalfOpenWedge ==
    /\ []NoWedge
    /\ (cb.state = StateHalfOpen /\ cb.maxRequests >= 1 /\ cb.generation < MaxGen)
          ~> (cb.state # StateHalfOpen)

\* a call turned away by a HalfOpen breaker that is full, an admitted call
\* of the generation still running
C20_Witness ==
    /\ DidBefore
    /\ exit[last.c] = RejectExit(ErrTooManyRequests)
    /\ cb.state = StateHalfOpen
    /\ cb.maxRequests >= 1
    /\ cb.generation < MaxGen
    /\ InFlight
====
